---- MODULE Spec2Model ----
(***************************************************************************)
(* Job queue and pipeline orchestrator of the video dubbing backend:       *)
(* the users/tasks tables of db.py, the /translate, /generate-code and     *)
(* /cryptomus-callback handlers of main.py, and the two worker loops       *)
(* (main.py's startup task and worker.py's standalone process).            *)
(*                                                                         *)
(* Granularity.  main.py's coroutines (translate_video, worker) share one  *)
(* event loop and switch only at an await; the sync handlers run in the    *)
(* thread pool and worker.py is a separate process, so their statements    *)
(* interleave with everything.  Every committed SQL statement is one step. *)
(* A store write inside the worker's try block may raise (sqlite3 raises   *)
(* OperationalError when the database file is locked by the other          *)
(* process); a raising statement changes nothing.                          *)
(***************************************************************************)
EXTENDS Integers, Sequences, FiniteSets, TLC

\* ---------------------------------------------------------------- bounds
MaxUsers == 2
MaxTasks == 2
MaxReqs == 1
MaxSubmits == 2
MaxTime == 1
MaxTopUps == 1

\* ------------------------------------------------------------- constants
SUBSCRIPTION_CREDITS == 10
None == 0
NULL == "NULL"

Loops == {"main", "standalone"}
Reqs == 1..MaxReqs
AllReqs == 1..MaxSubmits
Codes == 1..MaxUsers
StageOrder == <<"extract", "transcribe", "translate", "synthesize", "assemble">>

VARIABLES users, tasks, now, lastrowid, pc, task, rpc, ruser, resp,
          created, ledger, topups, files, exc

vars == <<users, tasks, now, lastrowid, pc, task, rpc, ruser, resp,
          created, ledger, topups, files, exc>>

\* ------------------------------------------------------------------ db.py
default_credits(plan) ==
    CASE plan = "free_trial" -> 1
      [] plan = "free" -> 1
      [] plan = "starter" -> 10
      [] plan = "pro" -> 50
      [] plan = "advanced" -> 200
      [] OTHER -> 1

default_minutes(plan) ==
    CASE plan = "free_trial" -> 3
      [] plan = "free" -> 3
      [] plan = "starter" -> 10 * 10
      [] plan = "pro" -> 50 * 60
      [] plan = "advanced" -> 200 * 120
      [] OTHER -> 3

\* INSERT INTO users: the AUTOINCREMENT id is the position in the sequence;
\* the account code is identified with that id.
create_user(us, plan) ==
    Append(us, [plan |-> plan,
                minutes_left |-> default_minutes(plan),
                video_credits |-> default_credits(plan)])

\* SELECT ... FROM users WHERE code=? : None when there is no such row.
get_user_by_code(us, code) ==
    IF code \in DOMAIN us
    THEN [id |-> code, minutes_left |-> us[code].minutes_left,
          video_credits |-> us[code].video_credits]
    ELSE [id |-> None, minutes_left |-> 0, video_credits |-> 0]

\* UPDATE users SET minutes_left = minutes_left - ? WHERE id=?
decrease_minutes(us, user_id, minutes) ==
    [i \in DOMAIN us |->
        IF i = user_id
        THEN [us[i] EXCEPT !.minutes_left = @ - minutes]
        ELSE us[i]]

\* The statement copied from decrease_minutes with its column left as it
\* was: UPDATE users SET minutes_left = minutes_left - ? WHERE id=?
decrease_video_credits_minutes(us, user_id, credits) ==
    [i \in DOMAIN us |->
        IF i = user_id
        THEN [us[i] EXCEPT !.minutes_left = @ - credits]
        ELSE us[i]]

\* UPDATE users SET video_credits = video_credits - ? WHERE id=?
decrease_video_credits(us, user_id, credits) ==
    [i \in DOMAIN us |->
        IF i = user_id
        THEN [us[i] EXCEPT !.video_credits = @ - credits]
        ELSE us[i]]

\* The admission test with `<` in place of `<=`: an account at 0 credits passes.
HasCreditsOffByOne(us, user_id) ==
    /\ user_id \in DOMAIN us
    /\ ~(us[user_id].video_credits < 0)

\* add_task's admission test: `if not user or user[0] <= 0: return None`
HasCredits(us, user_id) ==
    /\ user_id \in DOMAIN us
    /\ ~(us[user_id].video_credits <= 0)

\* INSERT INTO tasks (user_id, video_path, language, status) with
\* created_at DEFAULT CURRENT_TIMESTAMP and result_path NULL.
insert_task(ts, user_id, stamp) ==
    Append(ts, [user_id |-> user_id, status |-> "queued",
                result_path |-> NULL, created_at |-> stamp])

Queued(ts) == {j \in DOMAIN ts : ts[j].status = "queued"}

\* The select with the order reversed (ORDER BY created_at DESC): the newest
\* queued row.
get_next_task_newest(ts) ==
    IF Queued(ts) = {}
    THEN None
    ELSE CHOOSE j \in Queued(ts) :
            \A k \in Queued(ts) :
                \/ ts[j].created_at > ts[k].created_at
                \/ (ts[j].created_at = ts[k].created_at /\ j >= k)

\* SELECT ... WHERE status='queued' ORDER BY created_at LIMIT 1.  SQLite
\* scans the table in rowid order and keeps the first row of the smallest
\* created_at, so equal timestamps resolve to the smallest id.
get_next_task(ts) ==
    IF Queued(ts) = {}
    THEN None
    ELSE CHOOSE j \in Queued(ts) :
            \A k \in Queued(ts) :
                \/ ts[j].created_at < ts[k].created_at
                \/ (ts[j].created_at = ts[k].created_at /\ j <= k)

\* update_task_status: result_path is written only when it is truthy.
update_task_status(ts, task_id, status, result_path) ==
    [j \in DOMAIN ts |->
        IF j = task_id
        THEN IF result_path # NULL
             THEN [ts[j] EXCEPT !.status = status, !.result_path = result_path]
             ELSE [ts[j] EXCEPT !.status = status]
        ELSE ts[j]]

\* services.assemble_video returns os.path.join(FINAL_DIR, "dubbed_<base>.mp4")
assemble_video(task_id) == "final"

\* The files a job leaves in UPLOAD_DIR and AUDIO_DIR, named after the
\* upload's uuid (identified with the job id).  The upload of a submit that
\* admits no job belongs to no job and is not tracked.
\* main.py: video_path = os.path.join(UPLOAD_DIR, f"{uuid.uuid4()}.mp4")
upload_path(task_id) == <<"input", task_id>>
\* services.extract_audio writes and returns AUDIO_DIR/<base>.mp3
extract_audio(task_id) == <<"audio", task_id>>
\* services.generate_cloned_audio writes and returns AUDIO_DIR/dubbed_<base>.mp3
generate_cloned_audio(task_id) == <<"dubbed", task_id>>

\* The file a stage adapter has written when it returns.
StageOutput(stage, task_id) ==
    CASE stage = "extract" -> {extract_audio(task_id)}
      [] stage = "synthesize" -> {generate_cloned_audio(task_id)}
      [] OTHER -> {}

NoTask == [id |-> None, user_id |-> None]
NoResp == [kind |-> "none", task_id |-> None]

\* ------------------------------------------------------------------- Init
Init ==
    /\ users = <<>>
    /\ tasks = <<>>
    /\ now = 0
    /\ lastrowid = None
    /\ pc = [w \in Loops |-> "poll"]
    /\ task = [w \in Loops |-> NoTask]
    /\ rpc = [r \in AllReqs |-> "idle"]
    /\ ruser = [r \in AllReqs |-> None]
    /\ resp = [r \in AllReqs |-> NoResp]
    /\ created = [r \in AllReqs |-> None]
    /\ ledger = <<>>
    /\ topups = 0
    /\ files = {}
    /\ exc = [w \in Loops |-> "none"]

\* ------------------------------------------------- main.py's event loop
\* A coroutine of main.py gives up the event loop only at an await:
\* translate_video at `await video.read()`, worker at the two
\* asyncio.sleep calls and at `await transcribe_audio_remote(...)`.
WorkerYielded == pc["main"] \in {"poll", "transcribe", "dead"}
SubmitYielded(r) == rpc[r] \in {"idle", "reading"}
\* translate_video declared `def`: FastAPI runs it in the thread pool, where
\* nothing serializes two add_task calls.
GateFreeThreaded(r) == TRUE

\* translate_video is `async def`: add_task runs on the event loop, with no
\* await inside it.
GateFree(r) == WorkerYielded /\ \A q \in AllReqs \ {r} : SubmitYielded(q)
LoopFree(w) == (w = "main") => \A r \in AllReqs : SubmitYielded(r)

\* ------------------------------------------------------ sync handlers
\* GET /generate-code: create_user(code) with the default plan "free".
generate_code ==
    /\ Len(users) < MaxUsers
    /\ users' = create_user(users, "free")
    /\ lastrowid' = Len(users) + 1
    /\ UNCHANGED <<tasks, now, pc, task, rpc, ruser, resp, created, ledger, topups, files, exc>>

\* The callback with the sign of the amount lost: the payment is charged
\* to minutes_left.
cryptomus_callback_charges(code, status) ==
    LET user == get_user_by_code(users, code) IN
    /\ topups < MaxTopUps
    /\ IF user.id # None /\ status = "success"
       THEN /\ users' = decrease_minutes(users, user.id, SUBSCRIPTION_CREDITS)
            /\ topups' = topups + 1
       ELSE UNCHANGED <<users, topups>>
    /\ UNCHANGED <<tasks, now, lastrowid, pc, task, rpc, ruser, resp, created,
                   ledger, files, exc>>

\* The callback crediting the column its constant is named after: a
\* successful payment adds SUBSCRIPTION_CREDITS to video_credits.
cryptomus_callback_credits(code, status) ==
    LET user == get_user_by_code(users, code) IN
    /\ topups < MaxTopUps
    /\ IF user.id # None /\ status = "success"
       THEN /\ users' = decrease_video_credits(users, user.id, -SUBSCRIPTION_CREDITS)
            /\ topups' = topups + 1
       ELSE UNCHANGED <<users, topups>>
    /\ UNCHANGED <<tasks, now, lastrowid, pc, task, rpc, ruser, resp, created,
                   ledger, files, exc>>

\* GET /cryptomus-callback: a successful payment adds SUBSCRIPTION_CREDITS
\* to minutes_left through decrease_minutes with a negative amount.
cryptomus_callback(code, status) ==
    LET user == get_user_by_code(users, code) IN
    /\ topups < MaxTopUps
    /\ IF user.id # None /\ status = "success"
       THEN /\ users' = decrease_minutes(users, user.id, -SUBSCRIPTION_CREDITS)
            /\ topups' = topups + 1
       ELSE UNCHANGED <<users, topups>>
    /\ UNCHANGED <<tasks, now, lastrowid, pc, task, rpc, ruser, resp, created,
                   ledger, files, exc>>

\* CURRENT_TIMESTAMP has a resolution of one second.
Tick ==
    /\ now < MaxTime
    /\ now' = now + 1
    /\ UNCHANGED <<users, tasks, lastrowid, pc, task, rpc, ruser, resp,
                   created, ledger, topups, files, exc>>

\* ------------------------------------------------- POST /translate
\* translate_video up to `await video.read()`: the account lookup and the
\* minutes_left test.
translate_video(r, code) ==
    LET user == get_user_by_code(users, code) IN
    /\ rpc[r] = "idle"
    /\ GateFree(r)
    /\ created' = [created EXCEPT ![r] = None]
    /\ IF user.id = None \/ user.minutes_left <= 0
       THEN /\ resp' = [resp EXCEPT ![r] = [kind |-> "error", task_id |-> None]]
            /\ ruser' = [ruser EXCEPT ![r] = user.id]
            /\ UNCHANGED rpc
       ELSE /\ resp' = [resp EXCEPT ![r] = NoResp]
            /\ ruser' = [ruser EXCEPT ![r] = user.id]
            /\ rpc' = [rpc EXCEPT ![r] = "reading"]
    /\ UNCHANGED <<users, tasks, now, lastrowid, pc, task, ledger,
                   topups, files, exc>>

\* translate_video after the await: the upload is written to UPLOAD_DIR,
\* then add_task's first half: the credit test and INSERT INTO tasks +
\* commit.  With no credit add_task returns None and translate_video
\* answers {"task_id": None}.
add_task_insert(r) ==
    /\ rpc[r] = "reading"
    /\ GateFree(r)
    /\ IF HasCredits(users, ruser[r])
       THEN /\ Len(tasks) < MaxTasks
            /\ files' = files \cup {upload_path(Len(tasks) + 1)}
            /\ tasks' = insert_task(tasks, ruser[r], now)
            /\ ledger' = Append(ledger, [dones |-> 0, decs |-> 0, failed |-> FALSE])
            /\ lastrowid' = Len(tasks) + 1
            /\ created' = [created EXCEPT ![r] = Len(tasks) + 1]
            /\ rpc' = [rpc EXCEPT ![r] = "decrease"]
            /\ UNCHANGED resp
       ELSE /\ UNCHANGED files
            /\ resp' = [resp EXCEPT ![r] = [kind |-> "task_id", task_id |-> None]]
            /\ rpc' = [rpc EXCEPT ![r] = "idle"]
            /\ UNCHANGED <<tasks, ledger, lastrowid, created>>
    /\ UNCHANGED <<users, now, pc, task, ruser, topups, exc>>

\* add_task, second half: decrease_video_credits (UPDATE + commit), then
\* `return cursor.lastrowid` of the shared cursor.
add_task_decrease(r) ==
    /\ rpc[r] = "decrease"
    /\ users' = decrease_video_credits(users, ruser[r], 1)
    /\ resp' = [resp EXCEPT ![r] = [kind |-> "task_id", task_id |-> lastrowid]]
    /\ rpc' = [rpc EXCEPT ![r] = "idle"]
    /\ UNCHANGED <<tasks, now, lastrowid, pc, task, ruser, created, ledger, topups, files, exc>>

\* ------------------------------------------------------------ worker loops
\* worker.py calls translate_text.transcribe(audio): translate_text is a
\* function, the attribute lookup raises AttributeError on every run.
StageCanSucceed(w, stage) == ~(w = "standalone" /\ stage = "transcribe")

\* The exception class `except Exception as e` catches for a statement of
\* the try block: sqlite3.OperationalError from a store write, the
\* RuntimeError every services.py adapter wraps its failure in, an httpx
\* error from transcribe_audio_remote, worker.py's AttributeError.
Raised(w, at) ==
    CASE at \in {"claim", "done", "minutes"} -> "OperationalError"
      [] at = "transcribe" /\ w = "standalone" -> "AttributeError"
      [] at = "transcribe" /\ w # "standalone" -> "HTTPError"
      [] OTHER -> "RuntimeError"

StageIndex(stage) == CHOOSE i \in DOMAIN StageOrder : StageOrder[i] = stage

AfterStage(stage) ==
    IF StageIndex(stage) < Len(StageOrder)
    THEN StageOrder[StageIndex(stage) + 1]
    ELSE "done"

Stages == {StageOrder[i] : i \in DOMAIN StageOrder}

\* task = get_next_task(); an empty queue sleeps and polls again.  The
\* local `task` is dead between two polls (it is reassigned here), so the
\* steps that end a run reset it.
worker_poll(w) ==
    LET t == get_next_task(tasks) IN
    /\ pc[w] = "poll"
    /\ LoopFree(w)
    /\ t # None
    /\ task' = [task EXCEPT ![w] = [id |-> t, user_id |-> tasks[t].user_id]]
    /\ pc' = [pc EXCEPT ![w] = "claim"]
    /\ UNCHANGED <<users, tasks, now, lastrowid, rpc, ruser, resp, created,
                   ledger, topups, files, exc>>

\* update_task_status(task["id"], "processing")
worker_claim(w, raises) ==
    /\ pc[w] = "claim"
    /\ LoopFree(w)
    /\ IF raises
       THEN /\ pc' = [pc EXCEPT ![w] = "handler"]
            /\ exc' = [exc EXCEPT ![w] = Raised(w, "claim")]
            /\ UNCHANGED tasks
       ELSE /\ tasks' = update_task_status(tasks, task[w].id, "processing", NULL)
            /\ pc' = [pc EXCEPT ![w] = StageOrder[1]]
            /\ UNCHANGED exc
    /\ UNCHANGED <<users, now, lastrowid, task, rpc, ruser, resp, created,
                   ledger, topups, files>>

\* One stage adapter call: it returns (its output file written), or the
\* statement raises into the except clause.
worker_stage(w, raises) ==
    /\ pc[w] \in Stages
    /\ LoopFree(w)
    /\ IF raises \/ ~StageCanSucceed(w, pc[w])
       THEN /\ pc' = [pc EXCEPT ![w] = "handler"]
            /\ exc' = [exc EXCEPT ![w] = Raised(w, pc[w])]
            /\ ledger' = [ledger EXCEPT ![task[w].id].failed = TRUE]
            /\ UNCHANGED files
       ELSE /\ pc' = [pc EXCEPT ![w] = AfterStage(pc[w])]
            /\ files' = files \cup StageOutput(pc[w], task[w].id)
            /\ UNCHANGED <<exc, ledger>>
    /\ UNCHANGED <<users, tasks, now, lastrowid, task, rpc, ruser, resp,
                   created, topups>>

\* update_task_status(task["id"], "done", final_video)
worker_done(w, raises) ==
    /\ pc[w] = "done"
    /\ LoopFree(w)
    /\ IF raises
       THEN /\ pc' = [pc EXCEPT ![w] = "handler"]
            /\ exc' = [exc EXCEPT ![w] = Raised(w, "done")]
            /\ UNCHANGED <<tasks, ledger>>
       ELSE /\ tasks' = update_task_status(tasks, task[w].id, "done",
                                           assemble_video(task[w].id))
            /\ ledger' = [ledger EXCEPT ![task[w].id].dones = @ + 1]
            /\ pc' = [pc EXCEPT ![w] = "minutes"]
            /\ UNCHANGED exc
    /\ UNCHANGED <<users, now, lastrowid, task, rpc, ruser, resp, created,
                   topups, files>>

\* decrease_minutes(task["user_id"], 1), then the loop sleeps and polls.
worker_minutes(w, raises) ==
    /\ pc[w] = "minutes"
    /\ LoopFree(w)
    /\ IF raises
       THEN /\ pc' = [pc EXCEPT ![w] = "handler"]
            /\ exc' = [exc EXCEPT ![w] = Raised(w, "minutes")]
            /\ UNCHANGED <<users, ledger, task>>
       ELSE /\ users' = decrease_minutes(users, task[w].user_id, 1)
            /\ ledger' = [ledger EXCEPT ![task[w].id].decs = @ + 1]
            /\ pc' = [pc EXCEPT ![w] = "poll"]
            /\ task' = [task EXCEPT ![w] = NoTask]
            /\ UNCHANGED exc
    /\ UNCHANGED <<tasks, now, lastrowid, rpc, ruser, resp, created, topups,
                   files>>

\* except Exception as e: update_task_status(task["id"], "error").  When
\* this write raises too, the exception leaves worker() and the loop is
\* gone.
worker_except(w, raises) ==
    /\ pc[w] = "handler"
    /\ LoopFree(w)
    /\ IF raises
       THEN /\ pc' = [pc EXCEPT ![w] = "dead"]
            /\ UNCHANGED tasks
       ELSE /\ tasks' = update_task_status(tasks, task[w].id, "error", NULL)
            /\ pc' = [pc EXCEPT ![w] = "poll"]
    /\ task' = [task EXCEPT ![w] = NoTask]
    /\ exc' = [exc EXCEPT ![w] = "none"]
    /\ UNCHANGED <<users, now, lastrowid, rpc, ruser, resp, created, ledger,
                   topups, files>>

worker(w) ==
    \/ worker_poll(w)
    \/ \E raises \in BOOLEAN : worker_claim(w, raises)
    \/ \E raises \in BOOLEAN : worker_stage(w, raises)
    \/ \E raises \in BOOLEAN : worker_done(w, raises)
    \/ \E raises \in BOOLEAN : worker_minutes(w, raises)
    \/ \E raises \in BOOLEAN : worker_except(w, raises)

Next ==
    \/ generate_code
    \/ \E code \in Codes, status \in {"success", "fail"} :
          cryptomus_callback(code, status)
    \/ Tick
    \/ \E r \in Reqs, code \in Codes : translate_video(r, code)
    \/ \E r \in Reqs : add_task_insert(r)
    \/ \E r \in Reqs : add_task_decrease(r)
    \/ \E w \in Loops : worker(w)

Spec == Init /\ [][Next]_vars

\* main.py deployed alone (worker.py not started), with MaxSubmits
\* /translate requests in flight at once.
GateNext ==
    \/ generate_code
    \/ \E code \in Codes, status \in {"success", "fail"} :
          cryptomus_callback(code, status)
    \/ Tick
    \/ \E r \in AllReqs, code \in Codes : translate_video(r, code)
    \/ \E r \in AllReqs : add_task_insert(r)
    \/ \E r \in AllReqs : add_task_decrease(r)
    \/ worker("main")

GateSpec == Init /\ [][GateNext]_vars

\* The plans create_user knows, and one it does not ("custom": the .get
\* defaults).
Plans == {"free_trial", "free", "starter", "pro", "advanced", "custom"}

\* create_user(code, plan) called with an explicit plan.
create_user_plan(plan) ==
    /\ Len(users) < MaxUsers
    /\ users' = create_user(users, plan)
    /\ lastrowid' = Len(users) + 1
    /\ UNCHANGED <<tasks, now, pc, task, rpc, ruser, resp, created, ledger,
                   topups, files, exc>>

\* main.py deployed alone, accounts of every plan.
PlanNext ==
    \/ \E plan \in Plans : create_user_plan(plan)
    \/ \E code \in Codes, status \in {"success", "fail"} :
          cryptomus_callback(code, status)
    \/ \E r \in Reqs, code \in Codes : translate_video(r, code)
    \/ \E r \in Reqs : add_task_insert(r)
    \/ \E r \in Reqs : add_task_decrease(r)
    \/ worker("main")

PlanSpec == Init /\ [][PlanNext]_vars


\* The event loop runs every ready coroutine of main.py, and worker.py's
\* process runs its own loop: each loop and each admitted request keeps
\* taking its steps.
FairSpec ==
    /\ Spec
    /\ \A w \in Loops : WF_vars(worker(w))
    /\ \A r \in Reqs : WF_vars(add_task_insert(r) \/ add_task_decrease(r))

\* ------------------------------------------------------------------ claims
Processing == {j \in DOMAIN tasks : tasks[j].status = "processing"}
Terminal == {"done", "error"}
Owned(u) == {j \in DOMAIN tasks : tasks[j].user_id = u}

\* C1: in every reachable state at most one job has status 'processing',
\* whatever the number of worker loops and the interleaving of their steps.
C1_SingleFlight == Cardinality(Processing) <= 1

C3_NoCreditNoEffect ==
    [][\A r \in Reqs :
          (/\ rpc'[r] # rpc[r] \/ resp'[r] # resp[r]
           /\ \/ rpc[r] = "idle"
              \/ /\ rpc[r] = "reading"
                 /\ ruser[r] \in DOMAIN users
                 /\ users[ruser[r]].video_credits = 0)
          => (tasks' = tasks /\ users' = users)]_vars

\* A submit of an existing account with no credit left has returned.
C3_Witness ==
    \E r \in Reqs :
        /\ rpc[r] = "idle"
        /\ resp[r].kind = "task_id"
        /\ ruser[r] \in DOMAIN users
        /\ users[ruser[r]].video_credits = 0
        /\ created[r] = None

\* C4: a finished submit answers with a job id exactly when the call created
\* a job row; a call that created none answers with the limit error.
C4_SubmitResult ==
    \A r \in Reqs :
        (rpc[r] = "idle" /\ resp[r].kind # "none")
        => /\ (resp[r].kind = "task_id") <=> (created[r] # None)
           /\ (created[r] = None) => (resp[r].kind = "error")

\* C5: in every state, for every account, the number of job rows it owns
\* equals the credits it was created with minus its current video_credits.
C5_AdmissionAtomic ==
    \A u \in DOMAIN users :
        Cardinality(Owned(u)) =
            default_credits(users[u].plan) - users[u].video_credits

\* C6: a job row is created 'queued' and its status only ever moves
\* queued -> processing -> done or queued -> processing -> error; 'done' and
\* 'error' are never left.
C6_StatusLifecycle ==
    [][/\ \A j \in DOMAIN tasks :
             \/ tasks'[j].status = tasks[j].status
             \/ <<tasks[j].status, tasks'[j].status>> \in
                   {<<"queued", "processing">>, <<"processing", "done">>,
                    <<"processing", "error">>}
       /\ Len(tasks') > Len(tasks) => tasks'[Len(tasks')].status = "queued"]_vars

\* C7: a 'done' job has a result_path, and a 'queued', 'processing' or
\* 'error' job has none.
C7_ResultPathMatchesStatus ==
    \A j \in DOMAIN tasks :
        /\ tasks[j].status = "done" => tasks[j].result_path # NULL
        /\ tasks[j].status \in {"queued", "processing", "error"}
              => tasks[j].result_path = NULL

\* C8: a job that has been written 'done' has caused exactly one decrement
\* of minutes_left, once the loop that wrote 'done' is past its
\* decrease_minutes call.
C8_OneDecrementPerDone ==
    \A j \in DOMAIN tasks :
        (ledger[j].dones > 0 /\ ~\E w \in Loops : pc[w] = "minutes" /\ task[w].id = j)
        => ledger[j].decs = 1

\* C9: a job whose status is 'error' has caused no decrement of its
\* account's minutes_left.
C9_ErrorLeavesMinutes ==
    \A j \in DOMAIN tasks :
        tasks[j].status = "error" => ledger[j].decs = 0

\* C10: every admitted job eventually has status 'done' or 'error'.
C10_Totality ==
    \A j \in 1..MaxTasks :
        (j \in DOMAIN tasks)
            ~> (j \in DOMAIN tasks /\ tasks[j].status \in Terminal)

\* The intermediate files of a job: its upload, the extracted audio track
\* and the synthesized audio track.
Intermediates(j) == {upload_path(j), extract_audio(j), generate_cloned_audio(j)}

\* C11: once a job's status is 'done' or 'error', none of its intermediate
\* files (upload, extracted audio, synthesized audio) is left on disk.
C11_IntermediatesRemoved ==
    \A j \in DOMAIN tasks :
        tasks[j].status \in Terminal => Intermediates(j) \cap files = {}

\* C12: a failure raised while a job is processed never ends a worker
\* loop, the failure of the 'error' write itself included.
C12_LoopSurvives == \A w \in Loops : pc[w] # "dead"

\* The exception classes a stage adapter fails with.
AdapterErrors == {"RuntimeError", "HTTPError"}

\* C13: in either loop a claimed job reaches the except clause only
\* because a stage adapter or a store write failed: a run whose five
\* adapters all succeed, and whose writes succeed, is written 'done'.
C13_AdaptersSucceedThenDone ==
    \A w \in Loops :
        (pc[w] = "handler" /\ tasks[task[w].id].status # "queued")
            => exc[w] \in AdapterErrors \cup {"OperationalError"}

\* C14: minutes_left of every account, whatever its plan, is >= 0 in every
\* reachable state.
C14_MinutesNonNegative ==
    \A u \in DOMAIN users : users[u].minutes_left >= 0

\* An account with two admitted jobs, one finished and charged, the other
\* still queued.
C14_Witness ==
    \E u \in DOMAIN users : \E j, k \in Owned(u) :
        /\ j # k
        /\ ledger[j].decs = 1
        /\ tasks[k].status = "queued"
        /\ users[u].minutes_left < default_minutes(users[u].plan) + SUBSCRIPTION_CREDITS

\* C15: video_credits of every account is >= 0 in every reachable state,
\* with concurrent submits for one account: an account never owns more
\* jobs than the credits it was created with.
C15_CreditsNonNegative ==
    \A u \in DOMAIN users :
        /\ users[u].video_credits >= 0
        /\ Cardinality(Owned(u)) <= default_credits(users[u].plan)

\* Two submits of one account with a single credit in flight at once: one
\* has inserted its job and not yet taken the credit, the other is past the
\* minutes gate.
C15_Witness ==
    \E r1, r2 \in AllReqs :
        /\ r1 # r2
        /\ ruser[r1] # None /\ ruser[r1] = ruser[r2]
        /\ rpc[r1] = "decrease" /\ rpc[r2] = "reading"
        /\ users[ruser[r1]].video_credits = 1

\* C16: a submit by an existing account with video_credits > 0 is admitted
\* whatever its minutes_left: it passes the gate of translate_video, add_task
\* appends exactly one 'queued' row owned by the account and leaves the
\* other rows alone, and the credits go down by exactly 1.
C16_SubmitAdmitted ==
    [][\A r \in Reqs :
          /\ ( /\ rpc[r] = "idle"
               /\ <<rpc[r], resp[r], ruser[r]>> # <<rpc'[r], resp'[r], ruser'[r]>>
               /\ ruser'[r] # None
               /\ users[ruser'[r]].video_credits > 0 )
             => rpc'[r] = "reading"
          /\ ( /\ rpc[r] = "reading"
               /\ rpc'[r] # "reading"
               /\ users[ruser[r]].video_credits > 0 )
             => /\ rpc'[r] = "decrease"
                /\ Len(tasks') = Len(tasks) + 1
                /\ SubSeq(tasks', 1, Len(tasks)) = tasks
                /\ tasks'[Len(tasks')].status = "queued"
                /\ tasks'[Len(tasks')].user_id = ruser[r]
          /\ ( /\ rpc[r] = "decrease"
               /\ rpc'[r] # "decrease" )
             => /\ users'[ruser[r]].video_credits
                      = users[ruser[r]].video_credits - 1
                /\ tasks' = tasks
                /\ resp'[r].kind = "task_id"
                /\ resp'[r].task_id # None]_vars

\* A submit of an account with one credit has returned a job id: its row
\* is in the table and the credit is spent.
C16_Witness ==
    \E r \in Reqs :
        /\ rpc[r] = "idle"
        /\ resp[r].kind = "task_id" /\ resp[r].task_id # None
        /\ created[r] # None
        /\ tasks[created[r]].user_id = ruser[r]
        /\ users[ruser[r]].video_credits = 0

\* C17: while a job is in 'processing', at whichever stage, a submit can
\* run: a request that is about to enter translate_video can enter it, and
\* a request that has read its upload can run add_task.
C17_AdmissionNotBlocked ==
    Processing # {} =>
        \A r \in Reqs :
            /\ rpc[r] = "idle"
                  => ENABLED (\E code \in Codes : translate_video(r, code))
            /\ (rpc[r] = "reading" /\ Len(tasks) < MaxTasks)
                  => ENABLED add_task_insert(r)

\* C18: the write of 'processing' happens at most once per job: whenever a
\* loop's update_task_status(id, 'processing') succeeds and the loop goes on
\* to the first stage, the job was still 'queued'.
C18_ClaimedAtMostOnce ==
    [][\A w \in Loops :
          (pc[w] = "claim" /\ pc'[w] = "extract")
             => tasks[task[w].id].status = "queued"]_vars

\* The order of the statements of the try block, up to the 'done' write.
Pipeline ==
    {<<"claim", "extract">>, <<"extract", "transcribe">>,
     <<"transcribe", "translate">>, <<"translate", "synthesize">>,
     <<"synthesize", "assemble">>, <<"assemble", "done">>}

\* C19: the stages of a claimed job run in the order extract, transcribe,
\* translate, synthesize, assemble, each after the one before it returned;
\* once a stage has failed for a job, no stage, 'done' write or
\* decrease_minutes call runs for that job any more.
C19_StageOrderAndAbort ==
    [][\A w \in Loops :
          pc'[w] # pc[w] =>
             /\ (pc[w] \in {p[1] : p \in Pipeline} \ {"claim"} /\ pc'[w] # "handler")
                   => <<pc[w], pc'[w]>> \in Pipeline
             /\ pc'[w] \in {p[2] : p \in Pipeline}
                   => <<pc[w], pc'[w]>> \in Pipeline
             /\ pc[w] \in {p[2] : p \in Pipeline} \cup {"minutes"}
                   => ~ledger[task[w].id].failed]_vars

\* C20: the job id a submit returns is the id of the row this submit
\* inserted.
C20_ReturnedIdIsInserted ==
    \A r \in Reqs :
        (rpc[r] = "idle" /\ resp[r].kind = "task_id" /\ created[r] # None)
            => resp[r].task_id = created[r]

====
